---- MODULE Spec2Model ----
(***************************************************************************)
(* Ding-Chat: the Room Directory (RoomList), the Chat panel, the Room View *)
(* and their hosted backend, as state machines.  Every await of a handler  *)
(* is a separate step: its synchronous prefix is one action, and each      *)
(* backend response resumes it in another action, so that handlers of      *)
(* different clients interleave exactly at the awaits.  A backend call is  *)
(* evaluated at the moment its answer resumes the handler, and an answer   *)
(* that carries an error has changed nothing in the backend.  The messages *)
(* query of fetchMessages, whose answer alone decides what the handler     *)
(* writes, is evaluated in a step of its own.                              *)
(*                                                                         *)
(* Where a definition is preceded by a variant of itself (the same code    *)
(* with one slip), the variant serves to show that a property depends on   *)
(* the definition.                                                         *)
(*                                                                         *)
(* Text is a sequence of one-character strings (<<"a", " ">> is "a ").     *)
(***************************************************************************)
EXTENDS Integers, Sequences, FiniteSets

VARIABLES
    \* ---- backend tables ----
    roomsTable,        \* rows of `rooms`, in insertion order
    room_users,        \* rows of `room_users`: [<<room_id, user_id>> -> number of rows]
    \* ---- RoomList component state, one client per user ----
    selectedRoom, showJoinModal, joinPassword,
    showCreateModal, newRoomName, newRoomPassword, maxUsers,
    pc,                \* the await at which the client's running handler is suspended
    frame,             \* locals and closure of the client's latest handler invocation
    notice,            \* the toast shown by the latest handler invocation
    nav,               \* the room id last passed to onRoomSelect
    \* ---- RoomList of the session user Me: the list and its search ----
    rooms, filteredRooms, searchQuery,
    effectPending,     \* the search effect's dependencies changed and it has not run yet
    fetchPending,      \* fetchRooms calls awaiting their answer
    \* ---- backend of the chat ----
    messagesTable,     \* rows of `messages` of the room, in insertion order
    storage,           \* paths of the objects in the bucket message-images
    profiles,          \* ids of the users whose profiles row has an avatar_url
    channel,           \* INSERT notifications on their way to the Chat panel, in order
    \* ---- Chat component of the session user Me ----
    messages, newMessage, isUploading,
    sendPc,            \* the await at which handleSend is suspended
    sendFrame,         \* locals and closure of the latest handleSend invocation
    uploads,           \* the handleImageUpload invocations, in order of their start
    lookups,           \* payloads of the INSERT handlers awaiting the profile lookup
    chatNotice,        \* the toast the Chat panel showed last
    histPc,            \* the await at which fetchMessages is suspended
    histData,          \* messagesData of fetchMessages
    arrived,           \* ids of the INSERT notifications, in the order their handlers started
    \* ---- RoomView component of the session user Me ----
    roomId,            \* the roomId prop of the latest render
    showChat, showMembers, showLeaderboard, roomUsers, isOwner,
    fetches,           \* the fetchRoomDetails invocations, in order of their start
    memberChannel,     \* room_users notifications on their way to RoomView, in order
    kicks,             \* the handleKickUser invocations, in order of their start
    removed,           \* history: members taken out of roomUsers by a DELETE notification
                       \* or a kick, and not inserted into room_users again since
    viewNotice         \* the toast RoomView showed last

vars == <<roomsTable, room_users, selectedRoom, showJoinModal, joinPassword,
          showCreateModal, newRoomName, newRoomPassword, maxUsers,
          pc, frame, notice, nav,
          rooms, filteredRooms, searchQuery, effectPending, fetchPending,
          messagesTable, storage, profiles, channel, messages, newMessage, isUploading,
          sendPc, sendFrame, uploads, lookups, chatNotice, histPc, histData, arrived,
          showChat, showMembers, showLeaderboard, roomUsers, isOwner,
          fetches, memberChannel, kicks, removed, viewNotice, roomId>>

histVars == <<histPc, histData>>

chatVars == <<messagesTable, storage, profiles, channel, messages, newMessage,
              isUploading, sendPc, sendFrame, uploads, lookups, chatNotice,
              histPc, histData, arrived>>

toggleVars == <<showChat, showMembers, showLeaderboard>>

viewVars == <<showChat, showMembers, showLeaderboard, roomUsers, isOwner,
              fetches, memberChannel, kicks, removed, viewNotice, roomId>>

dirVars == <<roomsTable, room_users, selectedRoom, showJoinModal, joinPassword,
             showCreateModal, newRoomName, newRoomPassword, maxUsers,
             pc, frame, notice, nav>>

listVars == <<rooms, filteredRooms, searchQuery, effectPending, fetchPending>>

backendVars == <<roomsTable, room_users>>
joinFormVars == <<selectedRoom, showJoinModal, joinPassword>>
createFormVars == <<showCreateModal, newRoomName, newRoomPassword, maxUsers>>

----
\* Bounds of the model

\* rows the rooms table may hold
MaxRooms == 2
\* largest max_users a created room is given (besides the form's default)
MaxCap == 2

\* useState(10), and the reset after a successful create
DefaultMaxUsers == 10

Users == {"u1", "u2", "u3"}

Email(u) == <<u, "@">>

\* rooms.id as the backend generates it: distinct texts
IdDigits == <<"1", "2", "3", "4">>
RoomId(i) == <<IdDigits[i]>>
RoomIds == {RoomId(i) : i \in 1..MaxRooms}

NoRoom == [id |-> <<>>]
NoCount == -1

\* what the user may type into a password field
Passwords == {<<>>, <<" ">>, <<"a">>, <<"a", " ">>}
\* what the user may type into the room-name field
RoomNames == {<<>>, <<"s">>}
\* what the user may select in the Maximum Users field (min 1)
MaxUserChoices == 1..MaxCap

----
\* String.prototype.trim

IsSpace(c) == c = " "

RECURSIVE TrimStart(_)
TrimStart(s) ==
    IF s = <<>> THEN s
    ELSE IF IsSpace(Head(s)) THEN TrimStart(Tail(s)) ELSE s

RECURSIVE TrimEnd(_)
TrimEnd(s) ==
    IF s = <<>> THEN s
    ELSE IF IsSpace(s[Len(s)]) THEN TrimEnd(SubSeq(s, 1, Len(s) - 1)) ELSE s

Trim(s) == TrimEnd(TrimStart(s))

\* !value.trim()
IsBlank(s) == Trim(s) = <<>>

----
\* Backend queries

\* from('rooms') row by id
RoomById(id) == CHOOSE r \in {roomsTable[i] : i \in 1..Len(roomsTable)} : r.id = id

RoomRows == {roomsTable[i] : i \in 1..Len(roomsTable)}

RECURSIVE SumRows(_, _)
SumRows(r, us) ==
    IF us = {} THEN 0
    ELSE LET u == CHOOSE x \in us : TRUE
         IN room_users[<<r, u>>] + SumRows(r, us \ {u})

\* from('room_users').select('*', {count: 'exact'}).eq('room_id', r)
CountMembers(r) == SumRows(r, Users)

\* from('room_users').select('*').eq('room_id', r).eq('user_id', u)
MembershipRows(r, u) == room_users[<<r, u>>]

----
\* RoomList: the frame of a handler invocation

NoFrame ==
    [handler |-> "none", room |-> NoRoom, pw |-> <<>>, name |-> <<>>, max |-> 0,
     existingMembership |-> FALSE, count |-> NoCount, reqs |-> {},
     data |-> NoRoom, caught |-> FALSE]

\* the toast of a thrown backend error: shown only when the thrown value is an
\* Error instance (catch blocks test `error instanceof Error`)
ErrorNotices == {"backend error", "none"}

Mounted(u) == nav[u] = NoRoom.id

Idle(u) == pc[u] = "idle"

\* A UI event of an idle client ends the latest invocation's record: its locals are
\* gone and its toast is dismissed.  While a handler is suspended they stay.
Forget(u) ==
    /\ frame' = [frame EXCEPT ![u] = IF Idle(u) THEN NoFrame ELSE @]
    /\ notice' = [notice EXCEPT ![u] = IF Idle(u) THEN "none" ELSE @]

\* the catch block of joinRoom and createRoom
\* (variant: the handler stays at the failed call and takes its next answer)
CaughtRetrying(u, msg) ==
    /\ frame' = [frame EXCEPT ![u].caught = TRUE]
    /\ notice' = [notice EXCEPT ![u] = msg]
    /\ UNCHANGED pc
Caught(u, msg) ==
    /\ pc' = [pc EXCEPT ![u] = "idle"]
    /\ frame' = [frame EXCEPT ![u].caught = TRUE]
    /\ notice' = [notice EXCEPT ![u] = msg]

----
\* RoomList: the join workflow

\* onClick of a room's Join button
OpenJoin(u, room) ==
    /\ UNCHANGED <<listVars, chatVars, viewVars>>
    /\ Mounted(u) /\ Idle(u)
    /\ ~showJoinModal[u] /\ ~showCreateModal[u]
    /\ room \in RoomRows
    /\ selectedRoom' = [selectedRoom EXCEPT ![u] = room]
    /\ showJoinModal' = [showJoinModal EXCEPT ![u] = TRUE]
    /\ Forget(u)
    /\ UNCHANGED <<backendVars, joinPassword, createFormVars, pc, nav>>

\* onChange of the join modal's password input.  A suspended joinRoom reads the
\* password only from its closure, so typing is modelled between invocations.
TypeJoinPassword(u, p) ==
    /\ UNCHANGED <<listVars, chatVars, viewVars>>
    /\ Mounted(u) /\ Idle(u)
    /\ showJoinModal[u] /\ selectedRoom[u] # NoRoom
    /\ p # joinPassword[u]
    /\ joinPassword' = [joinPassword EXCEPT ![u] = p]
    /\ Forget(u)
    /\ UNCHANGED <<backendVars, selectedRoom, showJoinModal, createFormVars, pc, nav>>

\* onClick of the join modal's Cancel button
CancelJoin(u) ==
    /\ UNCHANGED <<listVars, chatVars, viewVars>>
    /\ Mounted(u)
    /\ showJoinModal[u] /\ selectedRoom[u] # NoRoom
    /\ showJoinModal' = [showJoinModal EXCEPT ![u] = FALSE]
    /\ selectedRoom' = [selectedRoom EXCEPT ![u] = NoRoom]
    /\ joinPassword' = [joinPassword EXCEPT ![u] = <<>>]
    /\ Forget(u)
    /\ UNCHANGED <<backendVars, createFormVars, pc, nav>>

\* joinPassword !== selectedRoom.password_hash, negated
\* (variant: compares the trimmed texts)
PasswordMatchesTrimmed(pw, room) == Trim(pw) = Trim(room.password_hash)
PasswordMatches(pw, room) == pw = room.password_hash

\* count !== null && count >= selectedRoom.max_users
\* (variants: > for >=; the check left out)
RoomIsFullStrict(count, room) == count > room.max_users
RoomIsNeverFull(count, room) == FALSE
RoomIsFull(count, room) == count >= room.max_users

\* joinRoom up to its first await: the validation and the password gate
SubmitJoin(u) ==
    /\ UNCHANGED <<listVars, chatVars, viewVars>>
    /\ Mounted(u) /\ Idle(u)
    /\ showJoinModal[u] /\ selectedRoom[u] # NoRoom
    /\ joinPassword[u] # <<>>                     \* the input is `required`
    /\ LET f == [NoFrame EXCEPT !.handler = "join", !.room = selectedRoom[u],
                                !.pw = joinPassword[u]]
       IN IF IsBlank(joinPassword[u])
          THEN /\ notice' = [notice EXCEPT ![u] = "Room password is required"]
               /\ frame' = [frame EXCEPT ![u] = f]
               /\ UNCHANGED pc
          ELSE IF ~PasswordMatches(joinPassword[u], selectedRoom[u])
          THEN /\ notice' = [notice EXCEPT ![u] = "Incorrect password"]
               /\ frame' = [frame EXCEPT ![u] = f]
               /\ UNCHANGED pc
          ELSE /\ notice' = [notice EXCEPT ![u] = "none"]
               /\ frame' = [frame EXCEPT ![u] = [f EXCEPT !.reqs = {"lookup"}]]
               /\ pc' = [pc EXCEPT ![u] = "join_lookup"]
    /\ UNCHANGED <<backendVars, joinFormVars, createFormVars, nav>>

\* if (existingMembership) { ...; onRoomSelect(selectedRoom.id); return; }
\* (variant: goes on to the insert)
JoinExistingReinserts(u) ==
    /\ pc' = [pc EXCEPT ![u] = "join_insert"]
    /\ frame' = [frame EXCEPT ![u].existingMembership = TRUE,
                              ![u].reqs = @ \cup {"insert"}]
    /\ UNCHANGED <<backendVars, joinFormVars, createFormVars, notice, nav>>
JoinExisting(u) ==
    /\ pc' = [pc EXCEPT ![u] = "idle"]
    /\ frame' = [frame EXCEPT ![u].existingMembership = TRUE]
    /\ showJoinModal' = [showJoinModal EXCEPT ![u] = FALSE]
    /\ joinPassword' = [joinPassword EXCEPT ![u] = <<>>]
    /\ nav' = [nav EXCEPT ![u] = frame[u].room.id]
    /\ UNCHANGED <<backendVars, selectedRoom, createFormVars, notice>>

\* the membership lookup (maybeSingle) answers
JoinLookupResp(u, err, shown) ==
    /\ UNCHANGED <<listVars, chatVars, viewVars>>
    /\ pc[u] = "join_lookup"
    /\ LET n == MembershipRows(frame[u].room.id, u)
       IN IF err \/ n > 1          \* maybeSingle fails on several rows
          THEN /\ Caught(u, shown)
               /\ UNCHANGED <<backendVars, joinFormVars, createFormVars, nav>>
          ELSE IF n = 1
          THEN JoinExisting(u)
          ELSE /\ pc' = [pc EXCEPT ![u] = "join_count"]
               /\ frame' = [frame EXCEPT ![u].reqs = @ \cup {"count"}]
               /\ UNCHANGED <<backendVars, joinFormVars, createFormVars, notice, nav>>

\* the membership count answers
\* (variant: the room-full branch only shows the notice)
JoinCountRespKeepsModal(u, err, shown) ==
    /\ UNCHANGED <<listVars, chatVars, viewVars>>
    /\ pc[u] = "join_count"
    /\ IF err
       THEN /\ Caught(u, shown)
            /\ UNCHANGED <<backendVars, joinFormVars, createFormVars, nav>>
       ELSE LET count == CountMembers(frame[u].room.id)
            IN IF RoomIsFull(count, frame[u].room)
               THEN /\ notice' = [notice EXCEPT ![u] = "Room is full. Please try another room."]
                    /\ pc' = [pc EXCEPT ![u] = "idle"]
                    /\ frame' = [frame EXCEPT ![u].count = count]
                    /\ UNCHANGED <<backendVars, joinFormVars, createFormVars, nav>>
               ELSE /\ pc' = [pc EXCEPT ![u] = "join_insert"]
                    /\ frame' = [frame EXCEPT ![u].count = count,
                                              ![u].reqs = @ \cup {"insert"}]
                    /\ UNCHANGED <<backendVars, joinFormVars, createFormVars, notice, nav>>
JoinCountResp(u, err, shown) ==
    /\ UNCHANGED <<listVars, chatVars, viewVars>>
    /\ pc[u] = "join_count"
    /\ IF err
       THEN /\ Caught(u, shown)
            /\ UNCHANGED <<backendVars, joinFormVars, createFormVars, nav>>
       ELSE LET count == CountMembers(frame[u].room.id)
            IN IF RoomIsFull(count, frame[u].room)
               THEN /\ notice' = [notice EXCEPT ![u] = "Room is full. Please try another room."]
                    /\ showJoinModal' = [showJoinModal EXCEPT ![u] = FALSE]
                    /\ joinPassword' = [joinPassword EXCEPT ![u] = <<>>]
                    /\ pc' = [pc EXCEPT ![u] = "idle"]
                    /\ frame' = [frame EXCEPT ![u].count = count]
                    /\ UNCHANGED <<backendVars, selectedRoom, createFormVars, nav>>
               ELSE /\ pc' = [pc EXCEPT ![u] = "join_insert"]
                    /\ frame' = [frame EXCEPT ![u].count = count,
                                              ![u].reqs = @ \cup {"insert"}]
                    /\ UNCHANGED <<backendVars, joinFormVars, createFormVars, notice, nav>>

\* the membership insert answers
JoinInsertResp(u, err, shown) ==
    /\ UNCHANGED <<listVars, chatVars, viewVars>>
    /\ pc[u] = "join_insert"
    /\ IF err
       THEN /\ Caught(u, shown)
            /\ UNCHANGED <<backendVars, joinFormVars, createFormVars, nav>>
       ELSE /\ room_users' = [room_users EXCEPT ![<<frame[u].room.id, u>>] = @ + 1]
            /\ showJoinModal' = [showJoinModal EXCEPT ![u] = FALSE]
            /\ joinPassword' = [joinPassword EXCEPT ![u] = <<>>]
            /\ nav' = [nav EXCEPT ![u] = frame[u].room.id]
            /\ notice' = [notice EXCEPT ![u] = "Successfully joined the room!"]
            /\ pc' = [pc EXCEPT ![u] = "idle"]
            /\ UNCHANGED <<roomsTable, selectedRoom, createFormVars, frame>>

----
\* RoomList: the create workflow

\* onClick of the Create Room button
OpenCreate(u) ==
    /\ UNCHANGED <<listVars, chatVars, viewVars>>
    /\ Mounted(u) /\ Idle(u)
    /\ ~showJoinModal[u] /\ ~showCreateModal[u]
    /\ showCreateModal' = [showCreateModal EXCEPT ![u] = TRUE]
    /\ Forget(u)
    /\ UNCHANGED <<backendVars, joinFormVars, newRoomName, newRoomPassword, maxUsers,
                   pc, nav>>

\* onChange of the create form's inputs
TypeCreateForm(u, name, p, m) ==
    /\ UNCHANGED <<listVars, chatVars, viewVars>>
    /\ Mounted(u) /\ Idle(u)
    /\ showCreateModal[u]
    /\ <<name, p, m>> # <<newRoomName[u], newRoomPassword[u], maxUsers[u]>>
    /\ newRoomName' = [newRoomName EXCEPT ![u] = name]
    /\ newRoomPassword' = [newRoomPassword EXCEPT ![u] = p]
    /\ maxUsers' = [maxUsers EXCEPT ![u] = m]
    /\ Forget(u)
    /\ UNCHANGED <<backendVars, joinFormVars, showCreateModal, pc, nav>>

\* onClick of the create form's Cancel button
CancelCreate(u) ==
    /\ UNCHANGED <<listVars, chatVars, viewVars>>
    /\ Mounted(u)
    /\ showCreateModal[u]
    /\ showCreateModal' = [showCreateModal EXCEPT ![u] = FALSE]
    /\ Forget(u)
    /\ UNCHANGED <<backendVars, joinFormVars, newRoomName, newRoomPassword, maxUsers,
                   pc, nav>>

CreatesInFlight == Cardinality({u \in Users : pc[u] \in {"create_user", "create_insert"}})

\* createRoom up to its first await: the validation
\* (variant: the password is not tested)
SubmitCreateUnchecked(u) ==
    /\ UNCHANGED <<listVars, chatVars, viewVars>>
    /\ Mounted(u) /\ Idle(u)
    /\ showCreateModal[u]
    /\ newRoomName[u] # <<>> /\ newRoomPassword[u] # <<>>
    /\ Len(roomsTable) + CreatesInFlight < MaxRooms
    /\ notice' = [notice EXCEPT ![u] = "none"]
    /\ frame' = [frame EXCEPT ![u] = [NoFrame EXCEPT !.handler = "create",
                                                      !.name = newRoomName[u],
                                                      !.pw = newRoomPassword[u],
                                                      !.max = maxUsers[u],
                                                      !.reqs = {"getUser"}]]
    /\ pc' = [pc EXCEPT ![u] = "create_user"]
    /\ UNCHANGED <<backendVars, joinFormVars, createFormVars, nav>>
SubmitCreate(u) ==
    /\ UNCHANGED <<listVars, chatVars, viewVars>>
    /\ Mounted(u) /\ Idle(u)
    /\ showCreateModal[u]
    /\ newRoomName[u] # <<>> /\ newRoomPassword[u] # <<>>   \* the inputs are `required`
    /\ Len(roomsTable) + CreatesInFlight < MaxRooms
    /\ LET f == [NoFrame EXCEPT !.handler = "create", !.name = newRoomName[u],
                                !.pw = newRoomPassword[u], !.max = maxUsers[u]]
       IN IF IsBlank(newRoomPassword[u])
          THEN /\ notice' = [notice EXCEPT ![u] = "Room password is required"]
               /\ frame' = [frame EXCEPT ![u] = f]
               /\ UNCHANGED pc
          ELSE /\ notice' = [notice EXCEPT ![u] = "none"]
               /\ frame' = [frame EXCEPT ![u] = [f EXCEPT !.reqs = {"getUser"}]]
               /\ pc' = [pc EXCEPT ![u] = "create_user"]
    /\ UNCHANGED <<backendVars, joinFormVars, createFormVars, nav>>

\* supabase.auth.getUser() answers: the session's user, or none
CreateUserResp(u, found) ==
    /\ UNCHANGED <<listVars, chatVars, viewVars>>
    /\ pc[u] = "create_user"
    /\ IF ~found
       THEN Caught(u, "User not found")
       ELSE /\ pc' = [pc EXCEPT ![u] = "create_insert"]
            /\ frame' = [frame EXCEPT ![u].reqs = @ \cup {"insert_room"}]
            /\ UNCHANGED notice
    /\ UNCHANGED <<backendVars, joinFormVars, createFormVars, nav>>

\* the row the rooms insert writes; id and created_at are the backend's
\* (variant: the owner columns are not written)
NewRoomRowOwnerless(u) ==
    [id |-> RoomId(Len(roomsTable) + 1), name |-> frame[u].name, password_hash |-> frame[u].pw,
     max_users |-> frame[u].max, owner_id |-> "nobody", owner_email |-> <<>>,
     created_at |-> Len(roomsTable) + 1]
NewRoomRow(u) ==
    [id |-> RoomId(Len(roomsTable) + 1), name |-> frame[u].name, password_hash |-> frame[u].pw,
     max_users |-> frame[u].max, owner_id |-> u, owner_email |-> Email(u),
     created_at |-> Len(roomsTable) + 1]

\* the rooms insert (.select().single()) answers
CreateInsertResp(u, err, shown) ==
    /\ UNCHANGED <<listVars, chatVars, viewVars>>
    /\ pc[u] = "create_insert"
    /\ IF err
       THEN /\ Caught(u, shown)
            /\ UNCHANGED <<backendVars, createFormVars, nav>>
       ELSE LET data == NewRoomRow(u)
            IN /\ roomsTable' = Append(roomsTable, data)
               /\ showCreateModal' = [showCreateModal EXCEPT ![u] = FALSE]
               /\ newRoomName' = [newRoomName EXCEPT ![u] = <<>>]
               /\ newRoomPassword' = [newRoomPassword EXCEPT ![u] = <<>>]
               /\ maxUsers' = [maxUsers EXCEPT ![u] = DefaultMaxUsers]
               /\ nav' = [nav EXCEPT ![u] = data.id]
               /\ notice' = [notice EXCEPT ![u] = "Room created successfully!"]
               /\ pc' = [pc EXCEPT ![u] = "idle"]
               /\ frame' = [frame EXCEPT ![u].data = data]
               /\ UNCHANGED room_users
    /\ UNCHANGED joinFormVars

----
\* The join workflow of three clients against one room

\* the room the directory holds: a row createRoom writes
FirstRoom(m) ==
    [id |-> RoomId(1), name |-> <<"s">>, password_hash |-> <<"a">>, max_users |-> m,
     owner_id |-> "u1", owner_email |-> Email("u1"), created_at |-> 1]

InitClients ==
    /\ selectedRoom = [u \in Users |-> NoRoom]
    /\ showJoinModal = [u \in Users |-> FALSE]
    /\ joinPassword = [u \in Users |-> <<>>]
    /\ showCreateModal = [u \in Users |-> FALSE]
    /\ newRoomName = [u \in Users |-> <<>>]
    /\ newRoomPassword = [u \in Users |-> <<>>]
    /\ maxUsers = [u \in Users |-> DefaultMaxUsers]
    /\ pc = [u \in Users |-> "idle"]
    /\ frame = [u \in Users |-> NoFrame]
    /\ notice = [u \in Users |-> "none"]
    /\ nav = [u \in Users |-> NoRoom.id]

\* no Chat panel is mounted
InitNoChat ==
    /\ messagesTable = <<>>
    /\ storage = {}
    /\ profiles = {}
    /\ channel = <<>>
    /\ messages = <<>>
    /\ newMessage = <<>>
    /\ isUploading = FALSE
    /\ sendPc = "idle"
    /\ sendFrame = [called |-> FALSE, content |-> <<>>, reqs |-> {}]
    /\ uploads = <<>>
    /\ lookups = {}
    /\ chatNotice = "none"
    /\ histPc = "done"
    /\ histData = <<>>
    /\ arrived = <<>>

\* no RoomView is mounted
InitNoView ==
    /\ roomId = NoRoom.id
    /\ showChat = FALSE
    /\ showMembers = FALSE
    /\ showLeaderboard = FALSE
    /\ roomUsers = <<>>
    /\ isOwner = FALSE
    /\ fetches = <<>>
    /\ memberChannel = <<>>
    /\ kicks = <<>>
    /\ removed = {}
    /\ viewNotice = "none"

InitList ==
    /\ rooms = <<>>
    /\ filteredRooms = <<>>
    /\ searchQuery = <<>>
    /\ effectPending = FALSE
    /\ fetchPending = 0

\* one room, with any members its capacity admits
InitJoin ==
    /\ \E m \in MaxUserChoices, S \in SUBSET Users :
          /\ Cardinality(S) <= m
          /\ roomsTable = <<FirstRoom(m)>>
          /\ room_users = [x \in RoomIds \X Users |-> IF x[1] = RoomId(1) /\ x[2] \in S THEN 1 ELSE 0]
    /\ InitClients
    /\ InitList
    /\ InitNoChat
    /\ InitNoView

NextJoin ==
    \E u \in Users :
        \/ \E room \in RoomRows : OpenJoin(u, room)
        \/ \E p \in Passwords : TypeJoinPassword(u, p)
        \/ CancelJoin(u)
        \/ SubmitJoin(u)
        \/ \E err \in BOOLEAN, shown \in ErrorNotices : JoinLookupResp(u, err, shown)
        \/ \E err \in BOOLEAN, shown \in ErrorNotices : JoinCountResp(u, err, shown)
        \/ \E err \in BOOLEAN, shown \in ErrorNotices : JoinInsertResp(u, err, shown)

SpecJoin == InitJoin /\ [][NextJoin]_vars

----
\* The create workflow of two clients against an empty directory

Creators == {"u1", "u2"}

InitCreate ==
    /\ roomsTable = <<>>
    /\ room_users = [x \in RoomIds \X Users |-> 0]
    /\ InitClients
    /\ InitList
    /\ InitNoChat
    /\ InitNoView

NextCreate ==
    \E u \in Creators :
        \/ OpenCreate(u)
        \/ \E name \in RoomNames, p \in Passwords, m \in MaxUserChoices \cup {DefaultMaxUsers} :
              TypeCreateForm(u, name, p, m)
        \/ CancelCreate(u)
        \/ SubmitCreate(u)
        \/ \E found \in BOOLEAN : CreateUserResp(u, found)
        \/ \E err \in BOOLEAN, shown \in ErrorNotices : CreateInsertResp(u, err, shown)

SpecCreate == InitCreate /\ [][NextCreate]_vars

----
\* The forms of two clients of a directory with one room: one creates, one joins

FormCreators == {"u2"}
FormJoiners == {"u3"}

InitForms ==
    /\ roomsTable = <<FirstRoom(MaxCap)>>
    /\ room_users = [x \in RoomIds \X Users |-> IF x = <<RoomId(1), "u1">> THEN 1 ELSE 0]
    /\ InitClients
    /\ InitList
    /\ InitNoChat
    /\ InitNoView

NextForms ==
    \/ \E u \in FormJoiners :
        \/ \E room \in RoomRows : OpenJoin(u, room)
        \/ \E p \in Passwords : TypeJoinPassword(u, p)
        \/ CancelJoin(u)
        \/ SubmitJoin(u)
        \/ \E err \in BOOLEAN, shown \in ErrorNotices : JoinLookupResp(u, err, shown)
        \/ \E err \in BOOLEAN, shown \in ErrorNotices : JoinCountResp(u, err, shown)
        \/ \E err \in BOOLEAN, shown \in ErrorNotices : JoinInsertResp(u, err, shown)
    \/ \E u \in FormCreators :
        \/ OpenCreate(u)
        \/ \E name \in RoomNames, p \in Passwords, m \in MaxUserChoices \cup {DefaultMaxUsers} :
              TypeCreateForm(u, name, p, m)
        \/ CancelCreate(u)
        \/ SubmitCreate(u)
        \/ \E found \in BOOLEAN : CreateUserResp(u, found)
        \/ \E err \in BOOLEAN, shown \in ErrorNotices : CreateInsertResp(u, err, shown)

SpecForms == InitForms /\ [][NextForms]_vars

----
\* RoomList: the room list and its search

\* the session user of the list's client
Me == "u1"

\* resolution lost by new Date(created_at).getTime(): created_at counts the
\* backend's ticks, getTime() whole groups of TimeGrain ticks
TimeGrain == 2
\* latest created_at of a listed room
MaxTime == 2

GetTime(created_at) == created_at \div TimeGrain

\* String.prototype.toLowerCase
LowerChar(c) == IF c = "A" THEN "a" ELSE IF c = "B" THEN "b" ELSE c
ToLowerCase(s) == [i \in 1..Len(s) |-> LowerChar(s[i])]

\* String.prototype.includes
Includes(s, q) == \E i \in 0..(Len(s) - Len(q)) : SubSeq(s, i + 1, i + Len(q)) = q

\* the comparator of the three sorts: owner's rooms first, then newest first
\* (variant: the dates subtracted the other way round)
CompareRoomsOldestFirst(a, b) ==
    IF (a.owner_id = Me) = (b.owner_id = Me)
    THEN GetTime(a.created_at) - GetTime(b.created_at)
    ELSE IF a.owner_id = Me THEN -1 ELSE 1
CompareRooms(a, b) ==
    IF (a.owner_id = Me) = (b.owner_id = Me)
    THEN GetTime(b.created_at) - GetTime(a.created_at)
    ELSE IF a.owner_id = Me THEN -1 ELSE 1

\* Array.prototype.sort with CompareRooms: a stable insertion of each element
RECURSIVE InsertRoom(_, _)
InsertRoom(x, t) ==
    IF t = <<>> THEN <<x>>
    ELSE IF CompareRooms(x, Head(t)) < 0 THEN <<x>> \o t
    ELSE <<Head(t)>> \o InsertRoom(x, Tail(t))

RECURSIVE SortRooms(_)
SortRooms(t) ==
    IF t = <<>> THEN <<>>
    ELSE InsertRoom(t[Len(t)], SortRooms(SubSeq(t, 1, Len(t) - 1)))

\* Array.prototype.filter with the search predicate
\* (variant: the id is not searched)
RoomMatchesNameOnly(room, query) == Includes(ToLowerCase(room.name), query)
RoomMatches(room, query) ==
    \/ Includes(ToLowerCase(room.id), query)
    \/ Includes(ToLowerCase(room.name), query)

RECURSIVE FilterRooms(_, _)
FilterRooms(t, query) ==
    IF t = <<>> THEN <<>>
    ELSE IF RoomMatches(Head(t), query)
         THEN <<Head(t)>> \o FilterRooms(Tail(t), query)
         ELSE FilterRooms(Tail(t), query)

\* from('rooms').select('*').order('created_at', {ascending: false}): the rows in
\* any order that is descending in created_at
OrderedByCreatedAtDesc(t) ==
    {q \in [1..Len(t) -> RoomRows] :
        /\ \A r \in RoomRows : \E i \in 1..Len(t) : q[i] = r
        /\ \A i, j \in 1..Len(t) : i < j => q[i].created_at >= q[j].created_at}

\* what the user may type into the search box: nothing, spaces, a letter of either
\* case, a digit of an id, and pairs of them
SearchQueries ==
    {<<>>, <<" ">>, <<"a">>, <<"B">>, <<"1">>, <<"a", "B">>, <<"B", " ">>, <<" ", " ">>}

\* names of the listed rooms
ListedNames == {<<"a", "B">>, <<"b">>}

\* rows of rooms as createRoom of Me or of another user writes them
ListedRoom(i, name, owner, t) ==
    [id |-> RoomId(i), name |-> name, password_hash |-> <<"a">>,
     max_users |-> DefaultMaxUsers, owner_id |-> owner, owner_email |-> Email(owner),
     created_at |-> t]

\* fetchRooms up to its await: on mount, and on every change of the rooms table
\* the channel reports (here: another client's insert).  The query is evaluated when
\* it answers, so calls that overlap see what one call sees: one is kept in flight.
FetchRoomsOnChange(name, owner, t) ==
    /\ UNCHANGED <<chatVars, viewVars>>
    /\ ~effectPending
    /\ Len(roomsTable) < MaxRooms
    /\ fetchPending = 0
    /\ roomsTable' = Append(roomsTable, ListedRoom(Len(roomsTable) + 1, name, owner, t))
    /\ fetchPending' = fetchPending + 1
    /\ UNCHANGED <<room_users, joinFormVars, createFormVars, pc, frame, notice, nav,
                   rooms, filteredRooms, searchQuery, effectPending>>

\* fetchRooms after its await
FetchRoomsResp(err, data) ==
    /\ UNCHANGED <<chatVars, viewVars>>
    /\ ~effectPending
    /\ fetchPending > 0
    /\ fetchPending' = fetchPending - 1
    /\ IF err
       THEN /\ notice' = [notice EXCEPT ![Me] = "Failed to fetch rooms"]
            /\ UNCHANGED <<rooms, filteredRooms, effectPending>>
       ELSE LET sortedRooms == SortRooms(data)
            IN /\ rooms' = sortedRooms
               /\ filteredRooms' = sortedRooms
               /\ effectPending' = TRUE          \* `rooms` is a dependency
               /\ UNCHANGED notice
    /\ UNCHANGED <<backendVars, joinFormVars, createFormVars, pc, frame, nav, searchQuery>>

\* onChange of the search box
SetSearchQuery(q) ==
    /\ UNCHANGED <<chatVars, viewVars>>
    /\ ~effectPending
    /\ q # searchQuery
    /\ searchQuery' = q
    /\ effectPending' = TRUE                     \* `searchQuery` is a dependency
    /\ UNCHANGED <<backendVars, joinFormVars, createFormVars, pc, frame, notice, nav,
                   rooms, filteredRooms, fetchPending>>

\* the effect on [searchQuery, rooms, session.user.id]
SearchEffect ==
    /\ UNCHANGED <<chatVars, viewVars>>
    /\ effectPending
    /\ effectPending' = FALSE
    /\ IF Trim(searchQuery) = <<>>
       THEN filteredRooms' = SortRooms(rooms)
       ELSE filteredRooms' = SortRooms(FilterRooms(rooms, ToLowerCase(searchQuery)))
    /\ UNCHANGED <<backendVars, joinFormVars, createFormVars, pc, frame, notice, nav,
                   rooms, searchQuery, fetchPending>>

\* the component mounts over any rooms table: fetchRooms is on its way
InitListing ==
    /\ \E n \in 0..MaxRooms :
          \E names \in [1..n -> ListedNames], owners \in [1..n -> {Me, "u2"}],
             times \in [1..n -> 0..MaxTime] :
                roomsTable = [i \in 1..n |-> ListedRoom(i, names[i], owners[i], times[i])]
    /\ room_users = [x \in RoomIds \X Users |-> 0]
    /\ InitClients
    /\ InitNoChat
    /\ InitNoView
    /\ rooms = <<>>
    /\ filteredRooms = <<>>
    /\ searchQuery = <<>>
    /\ effectPending = FALSE
    /\ fetchPending = 1

NextList ==
    \/ \E name \in ListedNames, owner \in {Me, "u2"}, t \in 0..MaxTime :
          FetchRoomsOnChange(name, owner, t)
    \/ \E err \in BOOLEAN, data \in OrderedByCreatedAtDesc(roomsTable) :
          FetchRoomsResp(err, data)
    \/ \E q \in SearchQueries : SetSearchQuery(q)
    \/ SearchEffect

SpecList == InitListing /\ [][NextList]_vars

----
\* Chat: sending text and images

\* messages the room may come to hold
MaxMessages == 2
\* handleImageUpload invocations of a run
MaxUploads == 1

\* what the user may have in the message box
ChatTexts == {<<>>, <<" ">>, <<"h">>}

\* File.type, as the parts of a media type, and the extension of File.name
ImagePrefix == <<"image", "/">>
Files ==
    {[type |-> <<"image", "/", "png">>, ext |-> "png"],
     [type |-> <<"text", "/", "plain">>, ext |-> "txt"],
     [type |-> <<>>, ext |-> "bin"]}

\* String.prototype.startsWith
StartsWith(s, prefix) ==
    /\ Len(s) >= Len(prefix)
    /\ SubSeq(s, 1, Len(prefix)) = prefix

\* file.type.startsWith('image/')
\* (variant: the test left out)
IsImageFileAlways(file) == TRUE
IsImageFile(file) == StartsWith(file.type, ImagePrefix)

\* `${session.user.id}/${Math.random()}.${fileExt}`: the k-th invocation's draw
FilePath(k, file) == <<Me, k, file.ext>>

\* storage.from('message-images').getPublicUrl(filePath)
PublicUrl(path) == <<"message-images">> \o path

\* the row a messages insert writes; the id is the backend's
TextRow(content) ==
    [id |-> Len(messagesTable) + 1, content |-> content, user_id |-> Me,
     user_email |-> Email(Me), message_type |-> "text", image_url |-> <<>>]
ImageRow(url) ==
    [id |-> Len(messagesTable) + 1, content |-> <<"Sent an image">>, user_id |-> Me,
     user_email |-> Email(Me), message_type |-> "image", image_url |-> url]

\* onChange of the message box (and onEmojiClick)
TypeMessage(t) ==
    /\ t # newMessage
    /\ newMessage' = t
    /\ sendFrame' = IF sendPc = "idle" THEN [called |-> FALSE, content |-> <<>>, reqs |-> {}]
                    ELSE sendFrame
    /\ UNCHANGED <<dirVars, listVars, viewVars, histVars, arrived,
                   messagesTable, storage, profiles, channel, messages,
                   isUploading, sendPc, uploads, lookups, chatNotice>>

\* handleSend up to its await
\* (variant: tests the input without trim)
SubmitSendUntrimmed ==
    /\ sendPc = "idle"
    /\ Len(messagesTable) < MaxMessages
    /\ IF newMessage = <<>>
       THEN /\ sendFrame' = [called |-> TRUE, content |-> newMessage, reqs |-> {}]
            /\ UNCHANGED sendPc
       ELSE /\ sendFrame' = [called |-> TRUE, content |-> newMessage, reqs |-> {"insert"}]
            /\ sendPc' = "insert"
    /\ UNCHANGED <<dirVars, listVars, viewVars, histVars, arrived,
                   messagesTable, storage, profiles, channel, messages,
                   newMessage, isUploading, uploads, lookups, chatNotice>>
SubmitSend ==
    /\ sendPc = "idle"
    /\ Len(messagesTable) < MaxMessages
    /\ IF IsBlank(newMessage)
       THEN /\ sendFrame' = [called |-> TRUE, content |-> newMessage, reqs |-> {}]
            /\ UNCHANGED sendPc
       ELSE /\ sendFrame' = [called |-> TRUE, content |-> newMessage, reqs |-> {"insert"}]
            /\ sendPc' = "insert"
    /\ UNCHANGED <<dirVars, listVars, viewVars, histVars, arrived,
                   messagesTable, storage, profiles, channel, messages,
                   newMessage, isUploading, uploads, lookups, chatNotice>>

\* handleSend after the insert
SendInsertResp(err, shown) ==
    /\ sendPc = "insert"
    /\ sendPc' = "idle"
    /\ IF err
       THEN /\ chatNotice' = shown
            /\ UNCHANGED <<messagesTable, channel, newMessage>>
       ELSE /\ messagesTable' = Append(messagesTable, TextRow(sendFrame.content))
            /\ channel' = Append(channel, TextRow(sendFrame.content))
            /\ newMessage' = <<>>
            /\ UNCHANGED chatNotice
    /\ UNCHANGED <<dirVars, listVars, viewVars, histVars, arrived,
                   storage, profiles, messages, isUploading,
                   sendFrame, uploads, lookups>>

\* handleImageUpload up to its await: from the file input or a drop
StartUpload(file) ==
    /\ Len(uploads) < MaxUploads
    /\ LET k == Len(uploads) + 1
       IN IF ~IsImageFile(file)
          THEN /\ chatNotice' = "Please upload an image file"
               /\ uploads' = Append(uploads, [file |-> file, path |-> FilePath(k, file),
                                              stage |-> "rejected", reqs |-> {}])
               /\ UNCHANGED isUploading
          ELSE /\ isUploading' = TRUE
               /\ uploads' = Append(uploads, [file |-> file, path |-> FilePath(k, file),
                                              stage |-> "upload", reqs |-> {"upload"}])
               /\ UNCHANGED chatNotice
    /\ UNCHANGED <<dirVars, listVars, viewVars, histVars, arrived,
                   messagesTable, storage, profiles, channel, messages,
                   newMessage, sendPc, sendFrame, lookups>>

\* handleImageUpload after the storage upload
\* (variant: uploadError is not thrown)
UploadRespIgnoringError(k, err, shown) ==
    /\ k \in 1..Len(uploads) /\ uploads[k].stage = "upload"
    /\ storage' = IF err THEN storage ELSE storage \cup {uploads[k].path}
    /\ uploads' = [uploads EXCEPT ![k].stage = "insert", ![k].reqs = @ \cup {"insert"}]
    /\ UNCHANGED <<dirVars, listVars, viewVars, histVars, arrived,
                   messagesTable, profiles, channel, messages,
                   newMessage, isUploading, sendPc, sendFrame, lookups, chatNotice>>
UploadResp(k, err, shown) ==
    /\ k \in 1..Len(uploads) /\ uploads[k].stage = "upload"
    /\ IF err
       THEN /\ chatNotice' = shown
            /\ isUploading' = FALSE                                   \* finally
            /\ uploads' = [uploads EXCEPT ![k].stage = "failed"]
            /\ UNCHANGED storage
       ELSE /\ storage' = storage \cup {uploads[k].path}
            /\ uploads' = [uploads EXCEPT ![k].stage = "insert", ![k].reqs = @ \cup {"insert"}]
            /\ UNCHANGED <<isUploading, chatNotice>>
    /\ UNCHANGED <<dirVars, listVars, viewVars, histVars, arrived,
                   messagesTable, profiles, channel, messages,
                   newMessage, sendPc, sendFrame, lookups>>

\* handleImageUpload after the messages insert
UploadInsertResp(k, err, shown) ==
    /\ k \in 1..Len(uploads) /\ uploads[k].stage = "insert"
    /\ isUploading' = FALSE                                           \* finally
    /\ IF err
       THEN /\ chatNotice' = shown
            /\ uploads' = [uploads EXCEPT ![k].stage = "failed"]
            /\ UNCHANGED <<messagesTable, channel>>
       ELSE /\ messagesTable' = Append(messagesTable, ImageRow(PublicUrl(uploads[k].path)))
            /\ channel' = Append(channel, ImageRow(PublicUrl(uploads[k].path)))
            /\ uploads' = [uploads EXCEPT ![k].stage = "done"]
            /\ UNCHANGED chatNotice
    /\ UNCHANGED <<dirVars, listVars, viewVars, histVars, arrived,
                   storage, profiles, messages, newMessage,
                   sendPc, sendFrame, lookups>>

\* the channel's INSERT handler up to its await: the profile lookup is issued
ReceiveInsert ==
    /\ channel # <<>>
    /\ channel' = Tail(channel)
    /\ lookups' = lookups \cup {Head(channel)}
    /\ arrived' = Append(arrived, Head(channel).id)
    /\ UNCHANGED <<dirVars, listVars, viewVars, histVars,
                   messagesTable, storage, profiles, messages,
                   newMessage, isUploading, sendPc, sendFrame, uploads, chatNotice>>

\* profileData?.avatar_url || null
AvatarOf(user, found) == IF found /\ user \in profiles THEN <<"avatar", user>> ELSE <<>>

\* the channel's INSERT handler after the profile lookup
AppendLive(payload, found) ==
    /\ payload \in lookups
    /\ lookups' = lookups \ {payload}
    /\ messages' = Append(messages,
                          [id |-> payload.id, user_id |-> payload.user_id,
                           user_email |-> payload.user_email,
                           content |-> payload.content,
                           message_type |-> payload.message_type,
                           image_url |-> payload.image_url,
                           avatar_url |-> AvatarOf(payload.user_id, found)])
    /\ UNCHANGED <<dirVars, listVars, viewVars, histVars, arrived,
                   messagesTable, storage, profiles, channel,
                   newMessage, isUploading, sendPc, sendFrame, uploads, chatNotice>>

\* the Chat panel is mounted on an empty room and fetchMessages has set the empty history
InitChat ==
    /\ roomsTable = <<>>
    /\ room_users = [x \in RoomIds \X Users |-> 0]
    /\ InitClients
    /\ InitList
    /\ messagesTable = <<>>
    /\ storage = {}
    /\ profiles \in SUBSET {Me}
    /\ channel = <<>>
    /\ messages = <<>>
    /\ newMessage = <<>>
    /\ isUploading = FALSE
    /\ sendPc = "idle"
    /\ sendFrame = [called |-> FALSE, content |-> <<>>, reqs |-> {}]
    /\ uploads = <<>>
    /\ lookups = {}
    /\ chatNotice = "none"
    /\ histPc = "done"
    /\ histData = <<>>
    /\ arrived = <<>>
    /\ InitNoView

NextChat ==
    \/ \E t \in ChatTexts : TypeMessage(t)
    \/ SubmitSend
    \/ \E err \in BOOLEAN, shown \in ErrorNotices : SendInsertResp(err, shown)
    \/ \E file \in Files : StartUpload(file)
    \/ \E k \in 1..MaxUploads, err \in BOOLEAN, shown \in ErrorNotices : UploadResp(k, err, shown)
    \/ \E k \in 1..MaxUploads, err \in BOOLEAN, shown \in ErrorNotices :
          UploadInsertResp(k, err, shown)
    \/ ReceiveInsert
    \/ \E payload \in lookups, found \in BOOLEAN : AppendLive(payload, found)

SpecChat == InitChat /\ [][NextChat]_vars

----
\* Chat: the history fetch and the live notifications

\* rows of the room when the Chat panel is mounted
MaxHistory == 1

\* the members of the room who write
Senders == {Me, "u2"}

\* the row a member's handleSend writes
RowOf(user) == [TextRow(<<"h">>) EXCEPT !.user_id = user, !.user_email = Email(user)]

\* { ...message, avatar_url }
WithAvatar(row, avatar) ==
    [id |-> row.id, user_id |-> row.user_id, user_email |-> row.user_email,
     content |-> row.content,
     message_type |-> row.message_type, image_url |-> row.image_url,
     avatar_url |-> avatar]

\* handleSend of a member of the room: the insert is committed and notified
Post(user) ==
    /\ Len(messagesTable) < MaxMessages
    /\ messagesTable' = Append(messagesTable, RowOf(user))
    /\ channel' = Append(channel, RowOf(user))
    /\ UNCHANGED <<dirVars, listVars, viewVars, histVars, arrived, storage, profiles,
                   messages, newMessage, isUploading, sendPc, sendFrame, uploads, lookups,
                   chatNotice>>

\* the backend evaluates the messages query of fetchMessages
HistoryQuery ==
    /\ histPc = "query"
    /\ histPc' = "answer"
    /\ histData' = messagesTable             \* order('created_at', { ascending: true })
    /\ UNCHANGED <<dirVars, listVars, viewVars, arrived, messagesTable, storage, profiles,
                   channel, messages, newMessage, isUploading, sendPc, sendFrame, uploads,
                   lookups, chatNotice>>

\* fetchMessages after the messages query; a throw is caught with the same toast
HistoryResp(err) ==
    /\ histPc = "answer"
    /\ IF err
       THEN /\ chatNotice' = "Failed to fetch messages"
            /\ histPc' = "failed"
            /\ histData' = <<>>
            /\ UNCHANGED messages
       ELSE IF histData = <<>>
            THEN /\ messages' = <<>>
                 /\ histPc' = "done"
                 /\ UNCHANGED <<histData, chatNotice>>
            ELSE /\ histPc' = "profiles"
                 /\ UNCHANGED <<histData, messages, chatNotice>>
    /\ UNCHANGED <<dirVars, listVars, viewVars, arrived, messagesTable, storage, profiles,
                   channel, newMessage, isUploading, sendPc, sendFrame, uploads, lookups>>

\* fetchMessages after the profiles query: outcome is "ok", "error" (profilesError is
\* logged, profilesData is null) or "throw" (caught)
HistoryProfilesResp(outcome) ==
    /\ histPc = "profiles"
    /\ IF outcome = "throw"
       THEN /\ chatNotice' = "Failed to fetch messages"
            /\ histPc' = "failed"
            /\ UNCHANGED messages
       ELSE /\ messages' = [i \in 1..Len(histData) |->
                               WithAvatar(histData[i],
                                          AvatarOf(histData[i].user_id, outcome = "ok"))]
            /\ histPc' = "done"
            /\ UNCHANGED chatNotice
    /\ UNCHANGED <<dirVars, listVars, viewVars, arrived, messagesTable, storage, profiles,
                   channel, newMessage, isUploading, sendPc, sendFrame, uploads, lookups,
                   histData>>

\* a row of messages written before the Chat panel is mounted
HistoryRow(i, user) ==
    [id |-> i, content |-> <<"h">>, user_id |-> user, user_email |-> Email(user),
     message_type |-> "text", image_url |-> <<>>]

\* the Chat panel is mounted: fetchMessages is called and the channel subscribed
InitLive ==
    /\ roomsTable = <<>>
    /\ room_users = [x \in RoomIds \X Users |-> 0]
    /\ InitClients
    /\ InitList
    /\ InitNoView
    /\ \E n \in 0..MaxHistory : \E senders \in [1..n -> Senders] :
          messagesTable = [i \in 1..n |-> HistoryRow(i, senders[i])]
    /\ storage = {}
    /\ profiles \in SUBSET Senders
    /\ channel = <<>>
    /\ messages = <<>>
    /\ newMessage = <<>>
    /\ isUploading = FALSE
    /\ sendPc = "idle"
    /\ sendFrame = [called |-> FALSE, content |-> <<>>, reqs |-> {}]
    /\ uploads = <<>>
    /\ lookups = {}
    /\ chatNotice = "none"
    /\ histPc = "query"
    /\ histData = <<>>
    /\ arrived = <<>>

NextLive ==
    \/ \E user \in Senders : Post(user)
    \/ HistoryQuery
    \/ \E err \in BOOLEAN : HistoryResp(err)
    \/ \E outcome \in {"ok", "error", "throw"} : HistoryProfilesResp(outcome)
    \/ ReceiveInsert
    \/ \E payload \in lookups, found \in BOOLEAN : AppendLive(payload, found)

SpecLive == InitLive /\ [][NextLive]_vars

----
\* RoomView: the members of the room, the kick and the view toggles

\* fetchRoomDetails invocations of a run: the one of the mount effect and one for
\* every INSERT or UPDATE notification
MaxFetches == 2
\* handleKickUser invocations of a run
MaxKicks == 1
\* room_users notifications on their way at a time
MaxChannel == 2

clientVars == <<selectedRoom, showJoinModal, joinPassword, showCreateModal, newRoomName,
                newRoomPassword, maxUsers, pc, frame, notice, nav>>

\* the roomId RoomView is mounted with
ViewedRoom == RoomId(1)

\* the rows of users_fullname
UsersFullname == {"u1", "u3"}

\* roomData of a lookup that found no row
NoRoomData == "none"

\* the place of a user's row in the table
UserRank(u) == CASE u = "u1" -> 1 [] u = "u2" -> 2 [] OTHER -> 3

\* user_ids of the rows of room_users of a room
MembersOf(r) == {u \in Users : room_users[<<r, u>>] > 0}
\* those of the room the view shows
Members == MembersOf(roomId)

\* the rows of room_users of the room as the query returns them: in the order of the
\* table, which is that of the user ids here
RECURSIVE InTableOrder(_)
InTableOrder(S) ==
    IF S = {} THEN <<>>
    ELSE LET u == CHOOSE x \in S : \A y \in S : UserRank(x) <= UserRank(y)
         IN <<u>> \o InTableOrder(S \ {u})

\* the per-member record fetchRoomDetails merges (the rpc resolves every id); resolved is
\* FALSE when profilesData and namesData are null
RoomUser(u, resolved) ==
    [user_id |-> u,
     user_email |-> Email(u),
     avatar_url |-> AvatarOf(u, resolved),
     first_name |-> IF resolved /\ u \in UsersFullname THEN <<"first", u>> ELSE <<>>,
     last_name |-> IF resolved /\ u \in UsersFullname THEN <<"last", u>> ELSE <<>>]

\* .sort((a, b) => a is the owner ? -1 : b is the owner ? 1 : 0), a stable sort
OwnerFirst(users, owner) ==
    SelectSeq(users, LAMBDA x : x.user_id = owner) \o
    SelectSeq(users, LAMBDA x : x.user_id # owner)

\* current.filter(user => user.user_id !== userId)
WithoutUser(users, userId) == SelectSeq(users, LAMBDA x : x.user_id # userId)

UserIds(users) == {users[i].user_id : i \in 1..Len(users)}

\* a fetchRoomDetails invocation at its first await; roomId is the one of the effect
\* that defined it
NewFetchOf(r) ==
    [stage |-> "room", roomId |-> r, roomData |-> NoRoomData, roomUsersData |-> <<>>]
NewFetch == NewFetchOf(roomId)
\* a fetchRoomDetails invocation that has returned: its locals are gone
EndedFetch ==
    [stage |-> "returned", roomId |-> NoRoom.id, roomData |-> NoRoomData,
     roomUsersData |-> <<>>]

\* ---- the view toggles ----

\* onClick of "Oda Uyeleri"
ToggleMembers ==
    /\ showMembers' = ~showMembers
    /\ UNCHANGED <<backendVars, clientVars, listVars, roomId, chatVars, showChat, showLeaderboard,
                   roomUsers, isOwner, fetches, memberChannel, kicks, removed, viewNotice>>

\* onClose of RoomMembers
CloseMembers ==
    /\ showMembers
    /\ showMembers' = FALSE
    /\ UNCHANGED <<backendVars, clientVars, listVars, roomId, chatVars, showChat, showLeaderboard,
                   roomUsers, isOwner, fetches, memberChannel, kicks, removed, viewNotice>>

\* onClick of the leaderboard button
ToggleLeaderboard ==
    /\ showLeaderboard' = ~showLeaderboard
    /\ showChat' = FALSE
    /\ UNCHANGED <<backendVars, clientVars, listVars, roomId, chatVars, showMembers,
                   roomUsers, isOwner, fetches, memberChannel, kicks, removed, viewNotice>>

\* onClick of the chat button
\* (variant: the leaderboard is left as it is)
ToggleChatOnly ==
    /\ showChat' = ~showChat
    /\ UNCHANGED <<backendVars, clientVars, listVars, roomId, chatVars, showMembers, showLeaderboard,
                   roomUsers, isOwner, fetches, memberChannel, kicks, removed, viewNotice>>
ToggleChat ==
    /\ showChat' = ~showChat
    /\ showLeaderboard' = FALSE
    /\ UNCHANGED <<backendVars, clientVars, listVars, roomId, chatVars, showMembers,
                   roomUsers, isOwner, fetches, memberChannel, kicks, removed, viewNotice>>

\* what the render shows
MembersPanelVisible == showMembers
LeaderboardVisible == showLeaderboard
ChatPanelVisible == showChat
TimerGridVisible == ~(showChat \/ showLeaderboard)       \* className 'hidden'

\* ---- fetchRoomDetails ----

\* after the rooms lookup: isOwner is set when a row came back
FetchRoomResp(k, found) ==
    /\ k \in 1..Len(fetches) /\ fetches[k].stage = "room"
    /\ LET found_rows == {r \in RoomRows : r.id = fetches[k].roomId}
           roomData == IF found /\ found_rows # {}
                       THEN (CHOOSE r \in found_rows : TRUE).owner_id
                       ELSE NoRoomData
       IN /\ fetches' = [fetches EXCEPT ![k].stage = "members", ![k].roomData = roomData]
          /\ isOwner' = IF roomData # NoRoomData THEN roomData = Me ELSE isOwner
    /\ UNCHANGED <<backendVars, clientVars, listVars, roomId, chatVars, toggleVars, roomUsers,
                   memberChannel, kicks, removed, viewNotice>>

\* after the room_users query
FetchMembersResp(k, err, data) ==
    /\ k \in 1..Len(fetches) /\ fetches[k].stage = "members"
    /\ data = InTableOrder(MembersOf(fetches[k].roomId))
    /\ IF err
       THEN /\ fetches' = [fetches EXCEPT ![k] = EndedFetch]
            /\ UNCHANGED roomUsers
       ELSE IF data = <<>>
            THEN /\ roomUsers' = <<>>
                 /\ fetches' = [fetches EXCEPT ![k] = EndedFetch]
            ELSE /\ fetches' = [fetches EXCEPT ![k].stage = "resolve",
                                               ![k].roomUsersData = data]
                 /\ UNCHANGED roomUsers
    /\ UNCHANGED <<backendVars, clientVars, listVars, roomId, chatVars, toggleVars, isOwner,
                   memberChannel, kicks, removed, viewNotice>>

\* the users fetchRoomDetails builds
FetchedUsers(f, resolved) ==
    OwnerFirst([i \in 1..Len(f.roomUsersData) |-> RoomUser(f.roomUsersData[i], resolved)],
               f.roomData)

\* after rpc('get_user_emails'), the profiles query and the users_fullname query: three
\* awaits that read nothing the component or the room's members change, taken as one
\* step.  outcome is "error" (userError: return), "nulls" (profilesData and namesData are
\* null) or "ok"; then setRoomUsers(users)
FetchResolveResp(k, outcome) ==
    /\ k \in 1..Len(fetches) /\ fetches[k].stage = "resolve"
    /\ IF outcome = "error"
       THEN /\ fetches' = [fetches EXCEPT ![k] = EndedFetch]
            /\ UNCHANGED roomUsers
       ELSE /\ roomUsers' = FetchedUsers(fetches[k], outcome = "ok")
            /\ fetches' = [fetches EXCEPT ![k] = EndedFetch]
    /\ UNCHANGED <<backendVars, clientVars, listVars, roomId, chatVars, toggleVars,
                   isOwner, memberChannel, kicks, removed, viewNotice>>

\* ---- the room_users channel ----

\* the fetchRoomDetails calls made and those the INSERT and UPDATE notifications on
\* their way will make
FetchesToCome ==
    Len(fetches) + Len(SelectSeq(memberChannel, LAMBDA e : e.eventType # "DELETE"))

\* joinRoom of another client inserts its membership row
MemberJoins(u) ==
    /\ u \notin Members
    /\ FetchesToCome < MaxFetches
    /\ Len(memberChannel) < MaxChannel
    /\ room_users' = [room_users EXCEPT ![<<roomId, u>>] = 1]
    /\ memberChannel' = Append(memberChannel, [eventType |-> "INSERT"])
    /\ removed' = removed \ {u}
    /\ UNCHANGED <<roomsTable, clientVars, listVars, roomId, chatVars, toggleVars, roomUsers,
                   isOwner, fetches, kicks, viewNotice>>

\* a row of room_users is updated
MemberUpdated(u) ==
    /\ u \in Members
    /\ FetchesToCome < MaxFetches
    /\ Len(memberChannel) < MaxChannel
    /\ memberChannel' = Append(memberChannel, [eventType |-> "UPDATE"])
    /\ UNCHANGED <<backendVars, clientVars, listVars, roomId, chatVars, toggleVars, roomUsers,
                   isOwner, fetches, kicks, removed, viewNotice>>

\* payload.old of a DELETE: the whole old row, or its primary key only
OldRows(u) == {[user_id |-> u], [id |-> u]}

\* a member leaves the room: the row is deleted by that member's client
MemberLeaves(u, old) ==
    /\ u \in Members
    /\ old \in OldRows(u)
    /\ Len(memberChannel) < MaxChannel
    /\ room_users' = [room_users EXCEPT ![<<roomId, u>>] = 0]
    /\ memberChannel' = Append(memberChannel, [eventType |-> "DELETE", old |-> old])
    /\ UNCHANGED <<roomsTable, clientVars, listVars, roomId, chatVars, toggleVars, roomUsers,
                   isOwner, fetches, kicks, removed, viewNotice>>

\* the DELETE handler
\* (variant: the list is fetched again instead)
HandleDeleteRefetching ==
    /\ memberChannel # <<>> /\ Head(memberChannel).eventType = "DELETE"
    /\ memberChannel' = Tail(memberChannel)
    /\ fetches' = Append(fetches, NewFetch)
    /\ UNCHANGED <<backendVars, clientVars, listVars, roomId, chatVars, toggleVars, roomUsers,
                   isOwner, kicks, removed, viewNotice>>
HandleDelete ==
    /\ memberChannel # <<>> /\ Head(memberChannel).eventType = "DELETE"
    /\ memberChannel' = Tail(memberChannel)
    /\ LET old == Head(memberChannel).old
       IN IF "user_id" \in DOMAIN old
          THEN /\ roomUsers' = WithoutUser(roomUsers, old.user_id)
               /\ removed' = IF old.user_id \in UserIds(roomUsers)
                             THEN removed \cup {old.user_id} ELSE removed
          ELSE UNCHANGED <<roomUsers, removed>>
    /\ UNCHANGED <<backendVars, clientVars, listVars, roomId, chatVars, toggleVars,
                   isOwner, fetches, kicks, viewNotice>>

\* the INSERT and the UPDATE handler: fetchRoomDetails()
HandleInsertOrUpdate ==
    /\ memberChannel # <<>> /\ Head(memberChannel).eventType # "DELETE"
    /\ memberChannel' = Tail(memberChannel)
    /\ fetches' = Append(fetches, NewFetch)
    /\ UNCHANGED <<backendVars, clientVars, listVars, roomId, chatVars, toggleVars, roomUsers,
                   isOwner, kicks, removed, viewNotice>>

\* ---- handleKickUser ----

\* up to its await, from the kick button of a listed member
\* (variant: without the isOwner guard)
HandleKickUserUnguarded(userId) ==
    /\ Len(kicks) < MaxKicks
    /\ userId \in UserIds(roomUsers)
    /\ kicks' = Append(kicks, [userId |-> userId, roomId |-> roomId, isOwner |-> isOwner,
                               stage |-> "delete", reqs |-> {"delete"}])
    /\ UNCHANGED <<backendVars, clientVars, listVars, roomId, chatVars, toggleVars, roomUsers,
                   isOwner, fetches, memberChannel, removed, viewNotice>>
HandleKickUser(userId) ==
    /\ Len(kicks) < MaxKicks
    /\ userId \in UserIds(roomUsers)
    /\ kicks' = Append(kicks,
                       IF ~isOwner
                       THEN [userId |-> userId, roomId |-> roomId, isOwner |-> isOwner,
                             stage |-> "returned", reqs |-> {}]
                       ELSE [userId |-> userId, roomId |-> roomId, isOwner |-> isOwner,
                             stage |-> "delete", reqs |-> {"delete"}])
    /\ UNCHANGED <<backendVars, clientVars, listVars, roomId, chatVars, toggleVars, roomUsers,
                   isOwner, fetches, memberChannel, removed, viewNotice>>

\* after the room_users delete: outcome is "ok", "error" (kickError) or "throw"
\* (variant: the member is taken out of the list before the answer is looked at)
KickRespOptimistic(k, outcome, old, shown) ==
    /\ k \in 1..Len(kicks) /\ kicks[k].stage = "delete"
    /\ old \in OldRows(kicks[k].userId)
    /\ roomUsers' = WithoutUser(roomUsers, kicks[k].userId)
    /\ removed' = IF kicks[k].userId \in UserIds(roomUsers)
                  THEN removed \cup {kicks[k].userId} ELSE removed
    /\ IF outcome = "ok"
       THEN /\ room_users' = [room_users EXCEPT ![<<kicks[k].roomId, kicks[k].userId>>] = 0]
            /\ memberChannel' = IF /\ kicks[k].roomId = roomId
                                   /\ kicks[k].userId \in Members
                                THEN Append(memberChannel,
                                            [eventType |-> "DELETE", old |-> old])
                                ELSE memberChannel
            /\ viewNotice' = "kicked"
            /\ kicks' = [kicks EXCEPT ![k].stage = "done"]
       ELSE /\ viewNotice' = IF outcome = "error" THEN "kick failed" ELSE shown
            /\ kicks' = [kicks EXCEPT ![k].stage = "failed"]
            /\ UNCHANGED <<room_users, memberChannel>>
    /\ UNCHANGED <<roomsTable, clientVars, listVars, roomId, chatVars, toggleVars,
                   isOwner, fetches>>
KickResp(k, outcome, old, shown) ==
    /\ k \in 1..Len(kicks) /\ kicks[k].stage = "delete"
    /\ old \in OldRows(kicks[k].userId)
    /\ IF outcome = "ok"
       THEN /\ room_users' = [room_users EXCEPT ![<<kicks[k].roomId, kicks[k].userId>>] = 0]
            /\ memberChannel' = IF /\ kicks[k].roomId = roomId
                                   /\ kicks[k].userId \in Members
                                THEN Append(memberChannel,
                                            [eventType |-> "DELETE", old |-> old])
                                ELSE memberChannel
            /\ roomUsers' = WithoutUser(roomUsers, kicks[k].userId)
            /\ removed' = IF kicks[k].userId \in UserIds(roomUsers)
                          THEN removed \cup {kicks[k].userId} ELSE removed
            /\ viewNotice' = "kicked"
            /\ kicks' = [kicks EXCEPT ![k].stage = "done"]
       ELSE /\ viewNotice' = IF outcome = "error" THEN "kick failed" ELSE shown
            /\ kicks' = [kicks EXCEPT ![k].stage = "failed"]
            /\ UNCHANGED <<room_users, memberChannel, roomUsers, removed>>
    /\ UNCHANGED <<roomsTable, clientVars, listVars, roomId, chatVars, toggleVars,
                   isOwner, fetches>>

\* the room the view is mounted on
ViewedRoomRow(owner) ==
    [FirstRoom(MaxCap) EXCEPT !.owner_id = owner, !.owner_email = Email(owner)]

\* RoomView is mounted: fetchRoomDetails is called and the channel subscribed
InitMounted ==
    /\ InitClients
    /\ InitList
    /\ messagesTable = <<>>
    /\ storage = {}
    /\ profiles = {"u2"}
    /\ channel = <<>>
    /\ messages = <<>>
    /\ newMessage = <<>>
    /\ isUploading = FALSE
    /\ sendPc = "idle"
    /\ sendFrame = [called |-> FALSE, content |-> <<>>, reqs |-> {}]
    /\ uploads = <<>>
    /\ lookups = {}
    /\ chatNotice = "none"
    /\ histPc = "done"
    /\ histData = <<>>
    /\ arrived = <<>>
    /\ roomId = ViewedRoom
    /\ showChat = FALSE
    /\ showMembers = FALSE
    /\ showLeaderboard = FALSE
    /\ roomUsers = <<>>
    /\ isOwner = FALSE
    /\ fetches = <<NewFetch>>
    /\ memberChannel = <<>>
    /\ kicks = <<>>
    /\ removed = {}
    /\ viewNotice = "none"

\* one room, owned by the session user or by another, with any members
InitView ==
    /\ \E owner \in {Me, "u2"}, S \in SUBSET Users :
          /\ roomsTable = <<ViewedRoomRow(owner)>>
          /\ room_users = [x \in RoomIds \X Users |->
                              IF x[1] = ViewedRoom /\ x[2] \in S THEN 1 ELSE 0]
    /\ InitMounted

\* the members of the room change while RoomView shows them; the DELETE notifications
\* carry the whole old row
NextMembers ==
    \/ \E k \in 1..MaxFetches, found \in BOOLEAN : FetchRoomResp(k, found)
    \/ \E k \in 1..MaxFetches, err \in BOOLEAN :
          FetchMembersResp(k, err, InTableOrder(Members))
    \/ \E k \in 1..MaxFetches, outcome \in {"ok", "nulls", "error"} :
          FetchResolveResp(k, outcome)
    \/ \E u \in Users : MemberJoins(u)
    \/ \E u \in Users : MemberUpdated(u)
    \/ \E u \in Users : MemberLeaves(u, [user_id |-> u])
    \/ HandleDelete
    \/ HandleInsertOrUpdate

SpecMembers == InitView /\ [][NextMembers]_vars

\* the kick, after the fetchRoomDetails of the mount effect
NextKick ==
    \/ \E found \in BOOLEAN : FetchRoomResp(1, found)
    \/ \E err \in BOOLEAN : FetchMembersResp(1, err, InTableOrder(Members))
    \/ \E outcome \in {"ok", "nulls", "error"} : FetchResolveResp(1, outcome)
    \/ \E userId \in Users : HandleKickUser(userId)
    \/ \E k \in 1..MaxKicks, outcome \in {"ok", "error", "throw"},
          old \in UNION {OldRows(u) : u \in Users}, shown \in ErrorNotices :
             KickResp(k, outcome, old, shown)
    \/ HandleDelete

SpecKick == InitView /\ [][NextKick]_vars

\* the view toggles while the fetchRoomDetails of the mount effect runs
NextToggle ==
    \/ ToggleMembers
    \/ CloseMembers
    \/ ToggleLeaderboard
    \/ ToggleChat
    \/ \E found \in BOOLEAN : FetchRoomResp(1, found)
    \/ \E err \in BOOLEAN : FetchMembersResp(1, err, InTableOrder(Members))
    \/ \E outcome \in {"ok", "nulls", "error"} : FetchResolveResp(1, outcome)

SpecToggle == InitView /\ [][NextToggle]_vars

\* ---- the roomId prop changes ----

\* RoomView is rendered with another roomId: the effect's cleanup unsubscribes the
\* channel and the effect runs again, calling the fetchRoomDetails of the new closure
\* and subscribing anew.  The component's state stays, and so do the invocations that
\* are suspended.
ChangeRoom(r) ==
    /\ r # roomId
    /\ Len(fetches) < MaxFetches
    /\ roomId' = r
    /\ memberChannel' = <<>>
    /\ fetches' = Append(fetches, NewFetchOf(r))
    /\ UNCHANGED <<backendVars, clientVars, listVars, chatVars, toggleVars, roomUsers,
                   isOwner, kicks, removed, viewNotice>>

\* the second room of the directory
OtherRoomRow(owner) ==
    [ViewedRoomRow(owner) EXCEPT !.id = RoomId(2)]

\* two rooms, each owned by the session user or by another and each with its owner and
\* u3 as members
InitOwner ==
    /\ \E o1 \in {Me, "u2"}, o2 \in {Me, "u2"} :
          /\ roomsTable = <<ViewedRoomRow(o1), OtherRoomRow(o2)>>
          /\ room_users = [x \in RoomIds \X Users |->
                              IF \/ x[1] = RoomId(1) /\ x[2] \in {o1, "u3"}
                                 \/ x[1] = RoomId(2) /\ x[2] \in {o2, "u3"}
                              THEN 1 ELSE 0]
    /\ InitMounted

\* the view is taken from room to room; the owner kicks
NextOwner ==
    \/ \E r \in RoomIds : ChangeRoom(r)
    \/ \E k \in 1..MaxFetches, found \in BOOLEAN : FetchRoomResp(k, found)
    \/ \E k \in 1..MaxFetches, err \in BOOLEAN, r \in RoomIds :
          FetchMembersResp(k, err, InTableOrder(MembersOf(r)))
    \/ \E k \in 1..MaxFetches, outcome \in {"ok", "nulls", "error"} :
          FetchResolveResp(k, outcome)
    \/ \E userId \in Users : HandleKickUser(userId)
    \/ \E k \in 1..MaxKicks, outcome \in {"ok", "error", "throw"},
          old \in UNION {OldRows(u) : u \in Users}, shown \in ErrorNotices :
             KickResp(k, outcome, old, shown)
    \/ HandleDelete

SpecOwner == InitOwner /\ [][NextOwner]_vars

----
\* Claims about joinRoom (SpecJoin)

JoinOf(u) == frame[u].handler = "join"
Inserted(u) == JoinOf(u) /\ "insert" \in frame[u].reqs /\ nav[u] = frame[u].room.id

\* C1: a joinRoom whose membership lookup finds the user's row issues no insert,
\* leaves the pair with its single row and calls onRoomSelect with the room's id,
\* whatever the room's membership count is.
C1_ExistingMemberJoinsWithoutInsert ==
    \A u \in Users :
        (JoinOf(u) /\ frame[u].existingMembership) =>
            /\ pc[u] = "idle"
            /\ "insert" \notin frame[u].reqs /\ "count" \notin frame[u].reqs
            /\ room_users[<<frame[u].room.id, u>>] = 1
            /\ nav[u] = frame[u].room.id

\* a member was let in while the room held more members than max_users
C1_Witness ==
    \E u \in Users :
        /\ JoinOf(u) /\ frame[u].existingMembership /\ nav[u] = RoomId(1)
        /\ CountMembers(RoomId(1)) > frame[u].room.max_users

\* C2: a non-member's joinRoom that reads a count >= max_users ends with the
\* 'room full' notice, without an insert and without navigation, and the step that
\* rejects it leaves room_users as it was.
C2_FullRoomRejectsJoin ==
    /\ [](\A u \in Users :
            (JoinOf(u) /\ frame[u].count # NoCount
                /\ frame[u].count >= frame[u].room.max_users) =>
                /\ pc[u] = "idle"
                /\ notice[u] = "Room is full. Please try another room."
                /\ "insert" \notin frame[u].reqs
                /\ room_users[<<frame[u].room.id, u>>] = 0
                /\ nav[u] = NoRoom.id)
    /\ [][\A u \in Users :
            (pc[u] = "join_count" /\ frame'[u].count # NoCount
                /\ frame'[u].count >= frame[u].room.max_users) =>
                room_users' = room_users]_vars

\* max_users 2 with 2 members: the third user is rejected and the count stays 2
C2_Witness ==
    \E u \in Users :
        /\ JoinOf(u) /\ frame[u].count = 2 /\ frame[u].room.max_users = 2
        /\ notice[u] = "Room is full. Please try another room."
        /\ CountMembers(RoomId(1)) = 2 /\ room_users[<<RoomId(1), u>>] = 0

\* C3: a joinRoom whose password differs from the room's stored password field
\* issues no backend call, inserts nothing and does not call onRoomSelect.
C3_WrongPasswordStopsJoin ==
    \A u \in Users :
        (JoinOf(u) /\ frame[u].pw # frame[u].room.password_hash) =>
            /\ pc[u] = "idle"
            /\ frame[u].reqs = {}
            /\ nav[u] = NoRoom.id

\* the stored password followed by a space is rejected as incorrect
C3_Witness ==
    \E u \in Users :
        /\ JoinOf(u) /\ frame[u].pw = <<"a", " ">>
        /\ frame[u].room.password_hash = <<"a">>
        /\ notice[u] = "Incorrect password" /\ frame[u].reqs = {}

\* C4: every join that inserts passed the capacity check on the count it read
\* itself, and a room holds more members than max_users only after two joiners
\* inserted on the same count: the over-capacity state comes from the gap between
\* the count and the insert.
C4_CapacityRace ==
    /\ \A u \in Users :
          (JoinOf(u) /\ "insert" \in frame[u].reqs) =>
              /\ frame[u].count # NoCount
              /\ frame[u].count < frame[u].room.max_users
    /\ \A i \in 1..Len(roomsTable) :
          CountMembers(roomsTable[i].id) > roomsTable[i].max_users =>
              \E u, v \in Users :
                  /\ u # v /\ Inserted(u) /\ Inserted(v)
                  /\ frame[u].room.id = roomsTable[i].id
                  /\ frame[v].room.id = roomsTable[i].id
                  /\ frame[u].count = frame[v].count

\* the room holds more members than max_users
C4_Witness ==
    \E u, v \in Users :
        /\ u # v /\ Inserted(u) /\ Inserted(v)
        /\ frame[u].count = frame[v].count
        /\ CountMembers(RoomId(1)) > RoomById(RoomId(1)).max_users

----
\* Claims about createRoom (SpecCreate)

\* C10: every room createRoom inserted is owned (owner_id, owner_email) by the
\* client that created it, and that client was passed the room's id through
\* onRoomSelect; a createRoom that threw (no user, failed insert) or was rejected
\* made no onRoomSelect call.
C10_CreatorOwnsAndEnters ==
    /\ \A i \in 1..Len(roomsTable) :
          LET r == roomsTable[i]
          IN /\ r.owner_id \in Creators
             /\ r.owner_email = Email(r.owner_id)
             /\ nav[r.owner_id] = r.id
             /\ frame[r.owner_id].data = r
    /\ \A u \in Users :
          (frame[u].handler = "create" /\ frame[u].data = NoRoom) => nav[u] = NoRoom.id

\* one client owns and entered the room it created, the other's insert failed
C10_Witness ==
    \E u, v \in Creators :
        /\ Len(roomsTable) = 1 /\ roomsTable[1].owner_id = u /\ nav[u] = RoomId(1)
        /\ roomsTable[1].max_users = 2
        /\ frame[v].handler = "create" /\ frame[v].caught
        /\ "insert_room" \in frame[v].reqs /\ nav[v] = NoRoom.id

----
\* Claims about the room list (SpecList)

Owned(room) == room.owner_id = Me

\* C8: the displayed list, after fetchRooms and after the search effect alike, has
\* every room of the session user before every other room, and within each of the
\* two groups the rooms in descending created_at.
C8_OwnerFirstNewestFirst ==
    \A i, j \in 1..Len(filteredRooms) :
        i < j =>
            /\ Owned(filteredRooms[j]) => Owned(filteredRooms[i])
            /\ (Owned(filteredRooms[i]) = Owned(filteredRooms[j])) =>
                  filteredRooms[i].created_at >= filteredRooms[j].created_at

\* under a search, the user's older room is shown before another user's newer one
C8_Witness ==
    /\ ~effectPending /\ Trim(searchQuery) # <<>>
    /\ Len(filteredRooms) = 2
    /\ Owned(filteredRooms[1]) /\ ~Owned(filteredRooms[2])
    /\ filteredRooms[1].created_at < filteredRooms[2].created_at

\* s contains q, letter case ignored
ContainsIgnoringCase(s, q) ==
    \E i \in 0..(Len(s) - Len(q)) :
        \A k \in 1..Len(q) : LowerChar(s[i + k]) = LowerChar(q[k])

Found(room) ==
    \/ ContainsIgnoringCase(room.id, searchQuery)
    \/ ContainsIgnoringCase(room.name, searchQuery)

Shown(room) == \E i \in 1..Len(filteredRooms) : filteredRooms[i] = room

\* C9 as stated: once the search effect has run, filteredRooms holds every room
\* whose id or name contains the query, and is empty when no room's does.
C9_AsStated ==
    ~effectPending =>
        /\ \A i \in 1..Len(rooms) : Found(rooms[i]) => Shown(rooms[i])
        /\ (\A i \in 1..Len(rooms) : ~Found(rooms[i])) => filteredRooms = <<>>

\* C9, amended: once the search effect has run, filteredRooms holds every room
\* whose id or name contains the query, letter case ignored; it is empty when no
\* room's does and the query is not whitespace only; a whitespace-only query
\* shows every room.
C9_SearchFindsEveryMatch ==
    ~effectPending =>
        /\ \A i \in 1..Len(rooms) : Found(rooms[i]) => Shown(rooms[i])
        /\ ((\A i \in 1..Len(rooms) : ~Found(rooms[i])) /\ Trim(searchQuery) # <<>>) =>
              filteredRooms = <<>>
        /\ Trim(searchQuery) = <<>> =>
              /\ Len(filteredRooms) = Len(rooms)
              /\ \A i \in 1..Len(rooms) : Shown(rooms[i])

\* the query "aB" finds the room named "aB" through its lowered name and leaves out
\* the room it does not match
C9_Witness ==
    /\ ~effectPending /\ searchQuery = <<"a", "B">>
    /\ Len(rooms) = 2 /\ Len(filteredRooms) = 1
    /\ filteredRooms[1].name = <<"a", "B">>

----
\* Claims about the Chat panel (SpecChat)

References(k) ==
    \E i \in 1..Len(messagesTable) : messagesTable[i].image_url = PublicUrl(uploads[k].path)

\* C5: a handleSend on an empty or whitespace-only input issues no messages insert,
\* and its step leaves the input text, the message list and the messages table as
\* they were.
C5_BlankSendDoesNothing ==
    /\ []((sendFrame.called /\ Trim(sendFrame.content) = <<>>) =>
            /\ sendFrame.reqs = {}
            /\ sendPc = "idle"
            /\ \A i \in 1..Len(messagesTable) : messagesTable[i].content # sendFrame.content)
    /\ [][(sendPc = "idle" /\ Trim(newMessage) = <<>> /\ sendFrame' # sendFrame
             /\ sendFrame'.called) =>
            UNCHANGED <<newMessage, messages, messagesTable, channel, sendPc>>]_vars

\* a whitespace-only input was submitted while the list already shows a message
C5_Witness ==
    /\ sendFrame.called /\ sendFrame.content = <<" ">> /\ sendFrame.reqs = {}
    /\ newMessage = <<" ">>
    /\ Len(messages) = 1 /\ Len(messagesTable) = 1

\* C6: a handleImageUpload of a file whose type does not start with 'image/' is
\* rejected: it issues no storage upload and no messages insert, nothing is stored
\* or inserted for it, and its step leaves isUploading as it was.
C6_NonImageIsRejected ==
    /\ [](\A k \in 1..Len(uploads) :
            ~StartsWith(uploads[k].file.type, <<"image", "/">>) =>
                /\ uploads[k].stage = "rejected"
                /\ uploads[k].reqs = {}
                /\ uploads[k].path \notin storage
                /\ ~References(k))
    /\ [][(Len(uploads') > Len(uploads)
             /\ ~StartsWith(uploads'[Len(uploads')].file.type, <<"image", "/">>)) =>
            UNCHANGED <<isUploading, storage, messagesTable, channel>>]_vars

\* a text file was rejected with the notice
C6_Witness ==
    \E k \in 1..Len(uploads) :
        /\ uploads[k].file.type = <<"text", "/", "plain">>
        /\ uploads[k].stage = "rejected" /\ uploads[k].reqs = {}
        /\ chatNotice = "Please upload an image file" /\ ~isUploading

\* C7: every image message references an object in storage; an upload that failed
\* issued no messages insert and left no object and no message; an upload whose
\* insert failed leaves its object in storage with no message referencing it.
C7_InsertOnlyAfterUpload ==
    /\ \A i \in 1..Len(messagesTable) :
          messagesTable[i].message_type = "image" =>
              \E k \in 1..Len(uploads) :
                  /\ messagesTable[i].image_url = PublicUrl(uploads[k].path)
                  /\ uploads[k].path \in storage
                  /\ uploads[k].stage = "done"
    /\ \A k \in 1..Len(uploads) :
          /\ (uploads[k].stage = "failed" /\ "insert" \notin uploads[k].reqs) =>
                uploads[k].path \notin storage /\ ~References(k)
          /\ (uploads[k].stage = "failed" /\ "insert" \in uploads[k].reqs) =>
                uploads[k].path \in storage /\ ~References(k)
          /\ "insert" \in uploads[k].reqs => uploads[k].path \in storage

\* the orphan: the upload succeeded, the insert failed, the handler has ended
C7_Witness ==
    \E k \in 1..Len(uploads) :
        /\ uploads[k].stage = "failed" /\ "insert" \in uploads[k].reqs
        /\ uploads[k].path \in storage /\ ~References(k)
        /\ ~isUploading

----
\* Claims about the rejections of joinRoom and createRoom (SpecForms, SpecJoin)

\* the latest invocation of a client's handler found the form invalid
Invalid(f) ==
    \/ f.handler = "create" /\ (IsBlank(f.pw) \/ f.name = <<>>)
    \/ f.handler = "join" /\ IsBlank(f.pw)

\* C14: a createRoom with an empty or whitespace-only password or without a name, and a
\* joinRoom with an empty or whitespace-only password, issue no backend call: no row is
\* written, the client is not suspended and it does not enter a room.
C14_InvalidFormsCallNothing ==
    /\ [](/\ \A u \in Users :
                Invalid(frame[u]) => /\ frame[u].reqs = {}
                                     /\ pc[u] = "idle"
                                     /\ notice[u] = "Room password is required"
          /\ \A i \in 1..Len(roomsTable) :
                ~IsBlank(roomsTable[i].password_hash) /\ roomsTable[i].name # <<>>)
    /\ [][\A u \in Users :
             (frame'[u] # frame[u] /\ Invalid(frame'[u]))
                => /\ roomsTable' = roomsTable
                   /\ room_users' = room_users
                   /\ nav' = nav]_vars

\* one client's createRoom and another's joinRoom were rejected for a password of spaces
C14_Witness ==
    /\ frame["u2"].handler = "create" /\ frame["u2"].pw = <<" ">>
    /\ frame["u2"].name = <<"s">> /\ frame["u2"].reqs = {}
    /\ frame["u3"].handler = "join" /\ frame["u3"].pw = <<" ">> /\ frame["u3"].reqs = {}

\* C20 (as stated): when joinRoom shows the room-full or the incorrect-password notice,
\* the join modal is closed.
C20_AsStated ==
    \A u \in Users :
        notice[u] \in {"Room is full. Please try another room.", "Incorrect password"}
           => ~showJoinModal[u]

\* C20: when joinRoom shows the room-full notice the join modal is closed and the password
\* cleared; when it shows the incorrect-password notice the modal stays open, with the
\* room and the password as entered.
C20_FullClosesWrongPasswordStays ==
    \A u \in Users :
        /\ notice[u] = "Room is full. Please try another room."
              => ~showJoinModal[u] /\ joinPassword[u] = <<>>
        /\ notice[u] = "Incorrect password"
              => /\ showJoinModal[u]
                 /\ selectedRoom[u] = frame[u].room
                 /\ joinPassword[u] = frame[u].pw

\* one client was told the room is full, another that the password is incorrect
C20_Witness ==
    \E u, v \in Users :
        /\ notice[u] = "Room is full. Please try another room." /\ ~showJoinModal[u]
        /\ notice[v] = "Incorrect password" /\ showJoinModal[v]

\* C21: the step in which a backend call of joinRoom (membership lookup, count or
\* insert) answers with an error ends the handler: the client enters no room, no
\* membership row is written, no further call is issued, and the join modal, the
\* selected room and the entered password are what they were; the ended invocation
\* issues nothing afterwards (a later call belongs to a new submit of the form).
C21_ErrorAbortsJoin ==
    /\ [](\A u \in Users :
            (frame[u].handler = "join" /\ frame[u].caught)
                => /\ pc[u] = "idle"
                   /\ frame[u].reqs \in {{"lookup"}, {"lookup", "count"},
                                         {"lookup", "count", "insert"}}
                   /\ ~frame[u].existingMembership)
    /\ [][\A u \in Users :
             /\ (frame[u].handler = "join" /\ ~frame[u].caught /\ frame'[u].caught)
                   => /\ nav'[u] = nav[u]
                      /\ room_users' = room_users
                      /\ showJoinModal'[u] = showJoinModal[u]
                      /\ selectedRoom'[u] = selectedRoom[u]
                      /\ joinPassword'[u] = joinPassword[u]
                      /\ frame'[u].reqs = frame[u].reqs
             /\ (frame[u].handler = "join" /\ frame[u].caught /\ frame'[u].caught)
                   => /\ frame'[u] = frame[u]
                      /\ pc'[u] = "idle"]_vars

\* a join failed at its insert: the modal is still open on the room with the password
\* as entered, the client is in the directory and has no membership row
C21_Witness ==
    \E u \in Users :
        /\ frame[u].handler = "join" /\ frame[u].caught
        /\ "insert" \in frame[u].reqs
        /\ showJoinModal[u] /\ selectedRoom[u] = frame[u].room
        /\ joinPassword[u] = frame[u].pw
        /\ Mounted(u)
        /\ room_users[<<frame[u].room.id, u>>] = 0

----
\* Claims about the live notifications of the Chat panel (SpecLive, SpecChat)

\* the INSERT handlers that have run to their end
Finished == {arrived[k] : k \in 1..Len(arrived)} \ {p.id : p \in lookups}
\* the places of messages that hold a message of the history and not of a notification
HistoryPlaces ==
    {j \in 1..Len(messages) :
        /\ \E h \in 1..Len(histData) : histData[h].id = messages[j].id
        /\ \A k \in 1..Len(arrived) : arrived[k] # messages[j].id}

\* C11 (as stated): a message inserted while the Chat panel is mounted is, once its INSERT
\* handler has run, in messages at a place after every message the history fetch loaded,
\* also when its notification came while the history fetch was in flight.
C11_AsStated ==
    \A id \in Finished :
        \E i \in 1..Len(messages) :
            /\ messages[i].id = id
            /\ \A j \in HistoryPlaces : j < i

\* the place of an id in a sequence of ids
PlaceIn(ids, id) == CHOOSE k \in 1..Len(ids) : ids[k] = id

\* C15 (as stated): messages appended by the INSERT handler stand in messages in the order
\* in which their notifications were delivered.
C15_AsStated ==
    \A i, j \in 1..Len(messages) :
        i < j => PlaceIn(arrived, messages[i].id) < PlaceIn(arrived, messages[j].id)

----
\* Claims about RoomView (SpecKick, SpecMembers, SpecToggle)

\* C12: handleKickUser with isOwner false issues no room_users delete and changes neither
\* roomUsers nor the table: the invocation returns at once.
C12_KickIsOwnerOnly ==
    /\ [](\A k \in 1..Len(kicks) :
             ~kicks[k].isOwner => kicks[k].stage = "returned" /\ kicks[k].reqs = {})
    /\ [][(Len(kicks') > Len(kicks) /\ ~isOwner)
             => /\ roomUsers' = roomUsers
                /\ room_users' = room_users
                /\ memberChannel' = memberChannel
                /\ kicks'[Len(kicks')].reqs = {}]_vars

\* a listed member's kick button was used while isOwner was false
C12_Witness ==
    /\ Len(kicks) > 0
    /\ ~kicks[1].isOwner
    /\ kicks[1].stage = "returned"
    /\ kicks[1].userId \in UserIds(roomUsers) \cap Members

\* C18: the owner's kick takes the target out of roomUsers in the step in which the delete
\* has succeeded, not before; when the delete answers with an error or throws, roomUsers
\* and the table stay as they are and nothing but an error notice is shown.
C18_KickRemovesAfterDelete ==
    [][/\ (Len(kicks') > Len(kicks)) => roomUsers' = roomUsers
       /\ \A k \in 1..Len(kicks) :
             /\ (kicks[k].stage = "delete" /\ kicks'[k].stage = "done")
                   => /\ room_users'[<<ViewedRoom, kicks[k].userId>>] = 0
                      /\ kicks[k].userId \notin UserIds(roomUsers')
                      /\ \A u \in UserIds(roomUsers) \ {kicks[k].userId} :
                            u \in UserIds(roomUsers')
             /\ (kicks[k].stage = "delete" /\ kicks'[k].stage = "failed")
                   => /\ roomUsers' = roomUsers
                      /\ room_users' = room_users
                      /\ memberChannel' = memberChannel
                      /\ viewNotice' # "kicked"]_vars

\* the delete of the owner's kick failed: the target is still listed and still a member
C18_Witness ==
    /\ Len(kicks) > 0
    /\ kicks[1].isOwner
    /\ kicks[1].stage = "failed"
    /\ viewNotice = "kick failed"
    /\ kicks[1].userId \in UserIds(roomUsers) \cap Members

\* after is before with the records of user id taken out, the others as they were
IsRemovalOf(before, after, id) ==
    /\ UserIds(after) = UserIds(before) \ {id}
    /\ Len(after) = Len(SelectSeq(before, LAMBDA x : x.user_id # id))
    /\ \A i, j \in 1..Len(before) :
          (i < j /\ before[i].user_id # id /\ before[j].user_id # id)
             => \E a, b \in 1..Len(after) :
                   a < b /\ after[a] = before[i] /\ after[b] = before[j]
    /\ \A i \in 1..Len(before) :
          before[i].user_id # id => \E a \in 1..Len(after) : after[a] = before[i]

\* a step in which a handler of the room_users channel takes a notification
Takes(eventTypes) ==
    /\ memberChannel # <<>>
    /\ Head(memberChannel).eventType \in eventTypes
    /\ memberChannel' = Tail(memberChannel)

C17_AsStated == \A u \in removed : u \notin UserIds(roomUsers)

\* the views the render shows
VisibleViews ==
    {v \in {"members", "leaderboard", "chat", "timers"} :
        \/ v = "members" /\ MembersPanelVisible
        \/ v = "leaderboard" /\ LeaderboardVisible
        \/ v = "chat" /\ ChatPanelVisible
        \/ v = "timers" /\ TimerGridVisible}

\* C13 (as stated): exactly one of the members panel, the leaderboard, the chat panel and
\* the timer grid is visible.
C13_AsStated == Cardinality(VisibleViews) = 1

\* C19: showChat and showLeaderboard are never both true; the step that opens the chat
\* leaves showLeaderboard false and the step that opens the leaderboard leaves showChat
\* false, and a step that closes one opens nothing but the other; a change of showMembers
\* leaves both; the timer grid is hidden exactly when one of the two is true.
C19_ChatAndLeaderboardExclude ==
    /\ [](/\ ~(showChat /\ showLeaderboard)
          /\ ~TimerGridVisible <=> (ChatPanelVisible \/ LeaderboardVisible))
    /\ [][/\ (~showChat /\ showChat') => ~showLeaderboard'
          /\ (~showLeaderboard /\ showLeaderboard') => ~showChat'
          /\ showMembers' # showMembers
                => (showChat' = showChat /\ showLeaderboard' = showLeaderboard)]_vars

\* the chat was opened over the leaderboard, with the members panel open
C19_Witness == showChat /\ showMembers /\ ~showLeaderboard /\ ~TimerGridVisible

\* the owner_id of the room RoomView shows, when the room has a row
OwnsRoom(u, r) == \E row \in RoomRows : row.id = r /\ row.owner_id = u

\* C22 (as stated): isOwner is true only if the session user owns the room roomId
\* names, and every handleKickUser that passed the isOwner guard was made by the owner
\* of the room it deletes from.
C22_AsStated ==
    /\ isOwner => OwnsRoom(Me, roomId)
    /\ \A k \in 1..Len(kicks) :
          kicks[k].reqs # {} => OwnsRoom(Me, kicks[k].roomId)

\* C23 (as stated): no message id stands more than once in messages.
C23_AsStated ==
    \A i \in 1..Len(messages), j \in 1..Len(messages) :
        i # j => messages[i].id # messages[j].id

====
